---- MODULE Spec2Model ----
(***************************************************************************)
(* Model of the two services of goexpert-lab-observabilidade:              *)
(*   service A (gateway, GetWeatherViaServiceB) and                        *)
(*   service B (orchestrator, GetWeatherHandler with fetchLocation and     *)
(*   fetchWeather).                                                        *)
(* A handler is cut at the points where it blocks on the network           *)
(* (client.Do, io.ReadAll, io.Copy); one action runs the handler from one  *)
(* such point to the next.                                                 *)
(***************************************************************************)
EXTENDS Integers, Sequences, FiniteSets, TLC

\* ------------------------------------------------------------------ bounds

\* Longest generated postal-code string (the README examples are added).
MaxCepLen == 9

\* ------------------------------------------------------- program constants

StatusOK == 200
StatusBadRequest == 400
StatusNotFound == 404
StatusUnprocessableEntity == 422
StatusInternalServerError == 500

\* --------------------------------------------------------------- strings
\* A string is a tuple of one-character strings.

Digits == {"0", "1", "2", "3", "4", "5", "6", "7", "8", "9"}

RECURSIVE Rep(_, _)
Rep(c, n) == IF n = 0 THEN << >> ELSE <<c>> \o Rep(c, n - 1)

\* The postal codes of the README's three scenarios.
ReadmeCeps ==
    { <<"0", "1", "0", "0", "1", "0", "0", "0">>,
      <<"9", "9", "9", "9", "9", "9", "9", "9">>,
      <<"1", "2", "3", "4", "5">> }

\* Postal-code strings a caller may send: every length up to MaxCepLen, all
\* digits, or with one non-digit at the front or at the end (a letter, a
\* dash, a trailing newline).
CepInputs ==
    ReadmeCeps
    \cup { Rep("7", n) : n \in 0..MaxCepLen }
    \cup { Rep("7", n) \o <<x>> : n \in 0..(MaxCepLen - 1), x \in {"a", "\n"} }
    \cup { <<"-">> \o Rep("7", n) : n \in 0..(MaxCepLen - 1) }

\* regexp.MatchString("^[0-9]{8}$", cep): exactly eight characters, each an
\* ASCII digit ($ without the m flag matches only at the end of the text).
isValidCEP(cep) == Len(cep) = 8 /\ \A i \in 1..Len(cep) : cep[i] \in Digits

\* The gateway's own copy of the same function.  (First a variant whose
\* pattern lost its {8}.)
isValidCEP_A_nolen(cep) == \A i \in 1..Len(cep) : cep[i] \in Digits

isValidCEP_A(cep) == Len(cep) = 8 /\ \A i \in 1..Len(cep) : cep[i] \in Digits

\* ------------------------------------------------------------ error values
\* The text of a Go error: the fragments a wrapper puts in front (none for a
\* bare error) and the message proper.  Error() is their concatenation; no
\* wrapper fragment used below is a prefix of a bare message.

Err(prefix, msg) == [prefix |-> prefix, msg |-> msg]

ErrorsNew(msg) == Err(<< >>, msg)

\* url.Error, what http.Client.Do returns: Op + " " + quoted URL + ": " + cause.
UrlError(url, cause) == Err(<<"Get ">> \o url \o <<": ">>, cause)

\* fmt.Errorf(prefix + "%w", err)
Wrap(prefix, e) == Err(<<prefix>> \o e.prefix, e.msg)

NotFoundText == "can not find zipcode"

\* Causes of a failed round trip.  The last one is a CONNECT proxy's status
\* text, which net/http hands on as the cause, whatever the proxy wrote.
TransportCauses ==
    { "dial tcp: connect: connection refused", NotFoundText }

\* Causes of a failed read of a response body; io.ReadAll hands them on
\* unwrapped.  They are net/http's own fixed texts.
BodyReadCauses == { "unexpected EOF" }

ContextCanceled == "context canceled"

\* -------------------------------------------------------- float64 values
\* A float64 is a finite number held in hundredths, a finite number too
\* large to be multiplied by 1.8 (such as 1e308), or +Inf.

Fin(h) == [k |-> "fin", v |-> h]

Huge == [k |-> "huge", v |-> 0]

Inf == [k |-> "inf", v |-> 0]

\* x * 1.8.  (First a variant that lost the factor.)
Mul18_noFactor(x) == x

Mul18(x) ==
    CASE x.k = "fin" -> Fin((x.v * 18) \div 10)
      [] x.k = "huge" -> Inf
      [] OTHER -> Inf

\* x + n, n a whole number
AddF(x, n) ==
    CASE x.k = "fin" -> Fin(x.v + n * 100)
      [] OTHER -> x

\* ------------------------------------------------------------ JSON values
\* A field of a decoded JSON object: absent, a string, or of another type.

JAbsent == [t |-> "absent", v |-> ""]

JString(s) == [t |-> "string", v |-> s]

JBool(b) == [t |-> "bool", v |-> b]

\* The address provider's response bodies: not JSON at all, or an object
\* with the fields localidade and erro.
ViaCEPBodies ==
    { [json |-> FALSE, localidade |-> JAbsent, erro |-> JAbsent] }
    \cup { [json |-> TRUE, localidade |-> l, erro |-> e] :
             l \in {JAbsent, JString("São Paulo")},
             e \in {JAbsent, JString(""), JString("true"), JString("false"),
                    JBool("true")} }

\* type ViaCEPResponse struct
ViaCEPResponse(localidade, erro) == [Localidade |-> localidade, Erro |-> erro]

NilErr == Err(<< >>, "")

Result(ok, val, err) == [ok |-> ok, val |-> val, err |-> err]

\* json.Unmarshal(body, &viaCEPResponse): a syntax error for a body that is
\* not JSON, a type error for a field that is not a string; an absent field
\* leaves the zero value "".
Unmarshal_ViaCEP(body) ==
    LET zero == ViaCEPResponse("", "")
    IN  IF ~body.json
        THEN Result(FALSE, zero,
                    ErrorsNew("invalid character '<' looking for beginning of value"))
        ELSE IF body.erro.t = "bool" \/ body.localidade.t = "bool"
        THEN Result(FALSE, zero,
                    ErrorsNew("json: cannot unmarshal bool into Go struct field of type string"))
        ELSE Result(TRUE, ViaCEPResponse(body.localidade.v, body.erro.v), NilErr)

\* The weather provider's response bodies: not JSON, or an object in which
\* current.temp_c is absent (its error object), a number, or a string.
TempAbsent == [t |-> "absent", f |-> Fin(0)]

TempNumber(f) == [t |-> "number", f |-> f]

TempString == [t |-> "string", f |-> Fin(0)]

\* Temperatures the provider reports, in hundredths of a degree.
TempInputs == { Fin(2000), Fin(0), Fin(-550), Huge }

WeatherBodies ==
    { [json |-> FALSE, temp_c |-> TempAbsent] }
    \cup { [json |-> TRUE, temp_c |-> t] :
             t \in {TempAbsent, TempString} \cup { TempNumber(f) : f \in TempInputs } }

\* type WeatherAPIResponse struct
WeatherAPIResponse(tempC) == [Current |-> [TempC |-> tempC]]

\* json.Unmarshal(body, &weatherAPIResponse)
Unmarshal_WeatherAPI(body) ==
    LET zero == WeatherAPIResponse(Fin(0))
    IN  IF ~body.json
        THEN Result(FALSE, zero,
                    ErrorsNew("invalid character '<' looking for beginning of value"))
        ELSE IF body.temp_c.t = "string"
        THEN Result(FALSE, zero,
                    ErrorsNew("json: cannot unmarshal string into Go struct field of type float64"))
        ELSE IF body.temp_c.t = "absent"
        THEN Result(TRUE, zero, NilErr)
        ELSE Result(TRUE, WeatherAPIResponse(body.temp_c.f), NilErr)

\* A provider's HTTP response as the client sees it.  The status code is
\* part of it; neither adapter reads it.
ViaCEPResponses ==
    { [StatusCode |-> IF b.json THEN StatusOK ELSE StatusBadRequest, Body |-> b] :
        b \in ViaCEPBodies }

WeatherResponses ==
    { [StatusCode |-> IF b.json /\ b.temp_c.t # "absent" THEN StatusOK ELSE StatusBadRequest,
       Body |-> b] : b \in WeatherBodies }

NoViaCEPResp == [StatusCode |-> 0, Body |-> [json |-> FALSE, localidade |-> JAbsent, erro |-> JAbsent]]

NoWeatherResp == [StatusCode |-> 0, Body |-> [json |-> FALSE, temp_c |-> TempAbsent]]

\* ------------------------------------------------------ http.ResponseWriter

\* type FinalResponse struct
FinalResponse(city, c, f, k) == [City |-> city, TempC |-> c, TempF |-> f, TempK |-> k]

ZeroFinal == FinalResponse("", Fin(0), Fin(0), Fin(0))

\* One Write to the response body: a line of text or a line of JSON.
TextChunk(e) == [kind |-> "text", text |-> e, json |-> ZeroFinal]

JsonChunk(r) == [kind |-> "json", text |-> NilErr, json |-> r]

NewWriter ==
    [wroteHeader |-> FALSE, status |-> 0, handlerHeader |-> {}, header |-> {},
     body |-> << >>, superfluous |-> 0]

\* w.Header().Set(k, v)
HeaderSet(w, k, v) ==
    [w EXCEPT !.handlerHeader = {p \in @ : p[1] # k} \cup {<<k, v>>}]

\* w.WriteHeader(code): the first call fixes the status and the headers on
\* the wire; a later call is ignored (net/http logs it as superfluous).
WriteHeader(w, code) ==
    IF w.wroteHeader
    THEN [w EXCEPT !.superfluous = @ + 1]
    ELSE [w EXCEPT !.wroteHeader = TRUE, !.status = code, !.header = w.handlerHeader]

\* w.Write(chunk): writes the header with 200 first if none was written.
Write(w, chunk) ==
    LET w1 == IF w.wroteHeader THEN w ELSE WriteHeader(w, StatusOK)
    IN  [w1 EXCEPT !.body = Append(@, chunk)]

\* http.Error(w, msg, code): plain-text headers, the status, msg and a newline.
HttpError(w, e, code) ==
    LET h1 == [w EXCEPT !.handlerHeader = {p \in @ : p[1] # "Content-Length"}]
        h2 == HeaderSet(h1, "Content-Type", "text/plain; charset=utf-8")
        h3 == HeaderSet(h2, "X-Content-Type-Options", "nosniff")
    IN  Write(WriteHeader(h3, code), TextChunk(e))

\* json.NewEncoder(w).Encode(v): nothing is written when a value cannot be
\* encoded (+Inf has no JSON form); otherwise one line of JSON.
Encode(w, v) ==
    IF v.TempC.k = "inf" \/ v.TempF.k = "inf" \/ v.TempK.k = "inf"
    THEN Result(FALSE, w, ErrorsNew("json: unsupported value: +Inf"))
    ELSE Result(TRUE, Write(w, JsonChunk(v)), NilErr)

\* ------------------------------------------------------- outbound requests

\* fmt.Sprintf("https://viacep.com.br/ws/%s/json/", cep)
ViaCEPUrl(cep) == <<"https://viacep.com.br/ws/">> \o cep \o <<"/json/">>

\* url.QueryEscape(city) on the localities of the model: a space becomes
\* "+", a byte outside the unreserved set becomes %XX.
QueryEscape(city) ==
    CASE city = "São Paulo" -> "S%C3%A3o+Paulo"
      [] OTHER -> city

\* fmt.Sprintf("http://api.weatherapi.com/v1/current.json?key=%s&q=%s&aqi=no", ...)
WeatherUrl(apiKey, city) ==
    <<"http://api.weatherapi.com/v1/current.json?key=", apiKey, "&q=",
      QueryEscape(city), "&aqi=no">>

\* fmt.Sprintf("http://service-b:8081/weather/%s", req.CEP)
ServiceBUrl(cep) == <<"http://service-b:8081/weather/">> \o cep

\* http.NewRequestWithContext(ctx, "GET", url, nil): the request lives and
\* dies with ctx ("a": the gateway request's context, "b": the
\* orchestrator request's context).
NewRequestWithContext(ctx, url) == [ctx |-> ctx, method |-> "GET", url |-> url]

NoRequest == [ctx |-> "none", method |-> "", url |-> << >>]

\* One outbound call: st is "none", "inflight" (Do has not returned),
\* "headers" (Do returned a response, the body is not read yet), "ok" (the
\* body was read to its end) or "failed"; n counts the calls of Do.
NoCall == [st |-> "none", req |-> NoRequest, n |-> 0]

StartCall(c, req) == [st |-> "inflight", req |-> req, n |-> c.n + 1]

\* ---------------------------------------------------------------- state

VARIABLES
    env,          \* the process environment of service B: WEATHER_API_KEY
    cancelled,    \* cancelled[c]: the context of the request of service c is done
    calls,        \* the outbound calls: serviceb, viacep, weatherapi
    spans,        \* per span name, how often it was started and ended
    trace,        \* the steps service B has taken, in order
    a_pc,         \* service A: where GetWeatherViaServiceB stands
    a_body,       \* service A: the request body received
    a_req,        \* service A: req, the decoded CEPRequest
    a_resp,       \* service A: resp, what client.Do returned
    w_a,          \* service A: the http.ResponseWriter
    b_pc,         \* service B: where GetWeatherHandler stands
    b_via,        \* service B: who sent the request ("gateway" or "direct")
    b_cep,        \* service B: cep, the path parameter
    location,     \* service B: what fetchLocation returned
    viacepResp,   \* service B: the address provider's response
    weatherResp,  \* service B: the weather provider's response
    w_b,          \* service B: the http.ResponseWriter
    exit          \* service B: the return statement the handler left by

vars ==
    <<env, cancelled, calls, spans, trace, a_pc, a_body, a_req, a_resp, w_a,
      b_pc, b_via, b_cep, location, viacepResp, weatherResp, w_b, exit>>

a_vars == <<a_pc, a_body, a_req, a_resp, w_a>>

SpanNames ==
    {"a.WeatherHandler", "b.WeatherHandler", "fetchLocation-viacep",
     "fetchWeather-weatherapi"}

\* tr.Start(ctx, name), and the span otelhttp.NewHandler starts per request
SpanStart(sp, name) == [sp EXCEPT ![name].started = @ + 1]

\* span.End(), deferred: it runs on every return of the function.  (First
\* a variant that never ends the span.)
SpanEnd_forgotten(sp, name) == sp

SpanEnd(sp, name) == [sp EXCEPT ![name].ended = @ + 1]

\* ctx.Done() is closed
Done(ctx) == IF ctx \in DOMAIN cancelled THEN cancelled[ctx] ELSE FALSE

\* The bodies a caller may POST to the gateway: not JSON, or an object in
\* which cep is absent, a string, or a number.
CepAbsent == [t |-> "absent", v |-> << >>]

CepString(c) == [t |-> "string", v |-> c]

CepNumber == [t |-> "number", v |-> << >>]

NoBody == [json |-> FALSE, cep |-> CepAbsent]

GatewayBodies ==
    { NoBody }
    \cup { [json |-> TRUE, cep |-> v] :
             v \in {CepAbsent, CepNumber} \cup { CepString(c) : c \in CepInputs } }

\* type CEPRequest struct
CEPRequest(cep) == [CEP |-> cep]

\* json.NewDecoder(r.Body).Decode(&req)
Decode(body) ==
    IF ~body.json
    THEN Result(FALSE, CEPRequest(<< >>),
                ErrorsNew("invalid character '<' looking for beginning of value"))
    ELSE IF body.cep.t = "number"
    THEN Result(FALSE, CEPRequest(<< >>),
                ErrorsNew("json: cannot unmarshal number into Go struct field CEPRequest.cep of type string"))
    ELSE Result(TRUE, CEPRequest(body.cep.v), NilErr)

NoResp == [StatusCode |-> 0, Header |-> {}, Body |-> << >>]

\* Before a request arrives.  main exits at start-up when WEATHER_API_KEY
\* is empty; fetchWeather reads the variable again on every request, and the
\* handler is modelled for both of its values.
Init ==
    /\ env \in [WEATHER_API_KEY : {"", "secret"}]
    /\ cancelled = [a |-> FALSE, b |-> FALSE]
    /\ calls = [serviceb |-> NoCall, viacep |-> NoCall, weatherapi |-> NoCall]
    /\ spans = [n \in SpanNames |-> [started |-> 0, ended |-> 0]]
    /\ trace = << >>
    /\ a_pc = "idle"
    /\ a_body = NoBody
    /\ a_req = [CEP |-> << >>]
    /\ a_resp = NoResp
    /\ w_a = NewWriter
    /\ b_pc = "idle"
    /\ b_via = "none"
    /\ b_cep = << >>
    /\ location = ViaCEPResponse("", "")
    /\ viacepResp = NoViaCEPResp
    /\ weatherResp = NoWeatherResp
    /\ w_b = NewWriter
    /\ exit = "none"

\* ------------------------------------------------- service B, orchestrator

\* What a call bound to a done context can still do: nothing but fail.
MayComplete(req) == ~Done(req.ctx)

DoErrors(req) ==
    IF Done(req.ctx) THEN {ContextCanceled} ELSE TransportCauses

ReadErrors(req) ==
    IF Done(req.ctx) THEN {ContextCanceled} ELSE BodyReadCauses

\* fetchLocation's request.  (First a variant built without the handler's
\* context.)
LocationRequest_noctx(cep) == NewRequestWithContext("background", ViaCEPUrl(cep))

LocationRequest(cep) == NewRequestWithContext("b", ViaCEPUrl(cep))

\* fetchWeather's request
WeatherRequest(apiKey, city) == NewRequestWithContext("b", WeatherUrl(apiKey, city))

\* fetchLocation, from the decoding of the body to its return.  (First a
\* variant of its test of the flag that takes any non-empty flag.)
NotFoundSignal_nonempty(v) == v.Erro # ""

NotFoundSignal(v) == v.Erro = "true"

fetchLocation_decode(body) ==
    LET u == Unmarshal_ViaCEP(body)
    IN  IF ~u.ok THEN u
        ELSE IF NotFoundSignal(u.val)
        THEN Result(FALSE, ViaCEPResponse("", ""), ErrorsNew(NotFoundText))
        ELSE u

\* GetWeatherHandler's answer to an error of fetchLocation: not-found is
\* told from the other errors by err.Error() alone.  (First a variant that
\* answers every error 404.)
LocationError_anyIs404(w, e) == HttpError(w, ErrorsNew(NotFoundText), StatusNotFound)

LocationError(w, e) ==
    IF e = ErrorsNew(NotFoundText)
    THEN HttpError(w, ErrorsNew(NotFoundText), StatusNotFound)
    ELSE HttpError(w, e, StatusInternalServerError)

\* fetchWeather's check of the credential.  (First a variant without it.)
CredentialMissing_unchecked(apiKey) == FALSE

CredentialMissing(apiKey) == apiKey = ""

\* fetchWeather, from the decoding of the body to its return
fetchWeather_decode(body) ==
    LET u == Unmarshal_WeatherAPI(body)
    IN  IF ~u.ok
        THEN Result(FALSE, u.val, Wrap("erro ao decodificar JSON da WeatherAPI: ", u.err))
        ELSE u

\* GetWeatherHandler after both adapters returned: the conversions, the
\* response and its writing
Respond(w, loc, weather) ==
    LET tempC == weather.Current.TempC
        tempF == AddF(Mul18(tempC), 32)
        tempK == AddF(tempC, 273)
        response == FinalResponse(loc.Localidade, tempC, tempF, tempK)
        w1 == WriteHeader(HeaderSet(w, "Content-Type", "application/json"), StatusOK)
        r == Encode(w1, response)
    IN  IF r.ok THEN r.val ELSE HttpError(w1, r.err, StatusInternalServerError)

\* The handler returns: the response is complete, otelhttp ends its span.
B_Return(w, sp, tr, tag) ==
    /\ w_b' = w
    /\ spans' = SpanEnd(sp, "b.WeatherHandler")
    /\ trace' = Append(tr, "respond")
    /\ b_pc' = "done"
    /\ exit' = tag

\* fetchLocation returns an error and the handler answers it.  (First a
\* variant whose handler lacks the return and goes on to fetchWeather.)
B_FailLocation_noReturn(e, st, tag) ==
    /\ calls' = [calls EXCEPT !.viacep.st = st,
                              !.weatherapi = StartCall(@, WeatherRequest(env.WEATHER_API_KEY, ""))]
    /\ w_b' = LocationError(w_b, e)
    /\ spans' = SpanStart(SpanEnd(spans, "fetchLocation-viacep"), "fetchWeather-weatherapi")
    /\ trace' = Append(trace, "fetchWeather")
    /\ b_pc' = "fetchWeather.Do"
    /\ exit' = tag

B_FailLocation(e, st, tag) ==
    /\ calls' = [calls EXCEPT !.viacep.st = st]
    /\ B_Return(LocationError(w_b, e), SpanEnd(spans, "fetchLocation-viacep"), trace, tag)

\* fetchWeather returns an error and the handler answers it.
B_FailWeather(e, cs, sp, tr, tag) ==
    /\ calls' = cs
    /\ B_Return(HttpError(w_b, e, StatusInternalServerError),
                SpanEnd(sp, "fetchWeather-weatherapi"), tr, tag)

\* The request arrives: validation, then fetchLocation up to client.Do.
B_Start(cep, via) ==
    /\ b_pc = "idle"
    /\ b_cep' = cep
    /\ b_via' = via
    /\ UNCHANGED <<env, cancelled, location, viacepResp, weatherResp>>
    /\ IF ~isValidCEP(cep)
       THEN /\ B_Return(HttpError(w_b, ErrorsNew("invalid zipcode"), StatusUnprocessableEntity),
                        SpanStart(spans, "b.WeatherHandler"), <<"validate">>, "invalid")
            /\ UNCHANGED calls
       ELSE /\ b_pc' = "fetchLocation.Do"
            /\ spans' = SpanStart(SpanStart(spans, "b.WeatherHandler"), "fetchLocation-viacep")
            /\ trace' = <<"validate", "fetchLocation">>
            /\ calls' = [calls EXCEPT !.viacep = StartCall(@, LocationRequest(cep))]
            /\ UNCHANGED <<w_b, exit>>

\* GET /weather/{cep} sent to service B directly.
B_ReceiveDirect ==
    /\ a_pc = "idle"
    /\ \E cep \in CepInputs \ {<< >>} : B_Start(cep, "direct")
    /\ UNCHANGED a_vars

\* GET /weather/{cep} sent by the gateway.
B_ReceiveFromA ==
    /\ calls.serviceb.st = "inflight"
    /\ B_Start(a_req.CEP, "gateway")
    /\ UNCHANGED a_vars

\* fetchLocation: client.Do returns an error.
B_LocationDoError ==
    /\ b_pc = "fetchLocation.Do"
    /\ \E cause \in DoErrors(calls.viacep.req) :
         B_FailLocation(UrlError(calls.viacep.req.url, cause), "failed", "location.transport")
    /\ UNCHANGED <<env, cancelled, b_via, b_cep, location, viacepResp, weatherResp>>
    /\ UNCHANGED a_vars

\* fetchLocation: client.Do returns the provider's response.
B_LocationDoResponse ==
    /\ b_pc = "fetchLocation.Do"
    /\ MayComplete(calls.viacep.req)
    /\ \E r \in ViaCEPResponses : viacepResp' = r
    /\ calls' = [calls EXCEPT !.viacep.st = "headers"]
    /\ b_pc' = "fetchLocation.ReadAll"
    /\ UNCHANGED <<env, cancelled, spans, trace, b_via, b_cep, location, weatherResp, w_b, exit>>
    /\ UNCHANGED a_vars

\* fetchLocation: io.ReadAll fails.
B_LocationReadError ==
    /\ b_pc = "fetchLocation.ReadAll"
    /\ \E cause \in ReadErrors(calls.viacep.req) :
         B_FailLocation(ErrorsNew(cause), "failed", "location.read")
    /\ UNCHANGED <<env, cancelled, b_via, b_cep, location, viacepResp, weatherResp>>
    /\ UNCHANGED a_vars

\* fetchLocation: io.ReadAll returns the body; the rest of fetchLocation,
\* the handler's check of its result, and fetchWeather up to client.Do.
B_LocationReadAll ==
    /\ b_pc = "fetchLocation.ReadAll"
    /\ MayComplete(calls.viacep.req)
    /\ UNCHANGED <<env, cancelled, b_via, b_cep, viacepResp, weatherResp>>
    /\ UNCHANGED a_vars
    /\ LET u == fetchLocation_decode(viacepResp.Body)
           cs == [calls EXCEPT !.viacep.st = "ok"]
           sp == SpanStart(SpanEnd(spans, "fetchLocation-viacep"), "fetchWeather-weatherapi")
           tr == Append(trace, "fetchWeather")
           apiKey == env.WEATHER_API_KEY
       IN  IF ~u.ok
           THEN /\ B_FailLocation(u.err, "ok",
                       IF Unmarshal_ViaCEP(viacepResp.Body).ok
                       THEN "location.notfound" ELSE "location.decode")
                /\ UNCHANGED location
           ELSE /\ location' = u.val
                /\ IF CredentialMissing(apiKey)
                   THEN B_FailWeather(ErrorsNew("WEATHER_API_KEY não definida"), cs, sp, tr,
                                      "weather.credential")
                   ELSE /\ b_pc' = "fetchWeather.Do"
                        /\ spans' = sp
                        /\ trace' = tr
                        /\ calls' = [cs EXCEPT !.weatherapi =
                                       StartCall(@, WeatherRequest(apiKey, u.val.Localidade))]
                        /\ UNCHANGED <<w_b, exit>>

\* fetchWeather: client.Do returns an error.
B_WeatherDoError ==
    /\ b_pc = "fetchWeather.Do"
    /\ \E cause \in DoErrors(calls.weatherapi.req) :
         B_FailWeather(UrlError(calls.weatherapi.req.url, cause),
                       [calls EXCEPT !.weatherapi.st = "failed"], spans, trace,
                       "weather.transport")
    /\ UNCHANGED <<env, cancelled, b_via, b_cep, location, viacepResp, weatherResp>>
    /\ UNCHANGED a_vars

\* fetchWeather: client.Do returns the provider's response.
B_WeatherDoResponse ==
    /\ b_pc = "fetchWeather.Do"
    /\ MayComplete(calls.weatherapi.req)
    /\ \E r \in WeatherResponses : weatherResp' = r
    /\ calls' = [calls EXCEPT !.weatherapi.st = "headers"]
    /\ b_pc' = "fetchWeather.ReadAll"
    /\ UNCHANGED <<env, cancelled, spans, trace, b_via, b_cep, location, viacepResp, w_b, exit>>
    /\ UNCHANGED a_vars

\* fetchWeather: io.ReadAll fails.
B_WeatherReadError ==
    /\ b_pc = "fetchWeather.ReadAll"
    /\ \E cause \in ReadErrors(calls.weatherapi.req) :
         B_FailWeather(Wrap("erro ao ler resposta da WeatherAPI: ", ErrorsNew(cause)),
                       [calls EXCEPT !.weatherapi.st = "failed"], spans, trace,
                       "weather.read")
    /\ UNCHANGED <<env, cancelled, b_via, b_cep, location, viacepResp, weatherResp>>
    /\ UNCHANGED a_vars

\* fetchWeather: io.ReadAll returns the body; the rest of fetchWeather and
\* of the handler.
B_WeatherReadAll ==
    /\ b_pc = "fetchWeather.ReadAll"
    /\ MayComplete(calls.weatherapi.req)
    /\ UNCHANGED <<env, cancelled, b_via, b_cep, location, viacepResp, weatherResp>>
    /\ UNCHANGED a_vars
    /\ LET u == fetchWeather_decode(weatherResp.Body)
           cs == [calls EXCEPT !.weatherapi.st = "ok"]
       IN  IF ~u.ok
           THEN B_FailWeather(u.err, cs, spans, trace, "weather.decode")
           ELSE /\ calls' = cs
                /\ B_Return(Respond(w_b, location, u.val),
                            SpanEnd(spans, "fetchWeather-weatherapi"), trace,
                            IF Respond(w_b, location, u.val).superfluous = 0
                            THEN "success" ELSE "encode")

\* ----------------------------------------------------- service A, gateway

b_vars == <<env, b_pc, b_via, b_cep, location, viacepResp, weatherResp, w_b, exit, trace>>

\* The request to service B
GatewayRequest(cep) == NewRequestWithContext("a", ServiceBUrl(cep))

\* The handler returns: otelhttp ends its span.
A_Return(w) ==
    /\ w_a' = w
    /\ a_pc' = "done"
    /\ spans' = SpanEnd(spans, "a.WeatherHandler")

\* The relay of resp: every header value is added, the status is written.
RelayHead(w, resp) ==
    WriteHeader([w EXCEPT !.handlerHeader = @ \cup resp.Header], resp.StatusCode)

\* io.Copy(w, resp.Body) that moved the first k writes of the body
RECURSIVE CopyBody(_, _, _)
CopyBody(w, body, k) ==
    IF k = 0 THEN w ELSE Write(CopyBody(w, body, k - 1), body[k])

\* POST /weather arrives: decoding, validation, and the call of service B
\* up to client.Do.  (http.NewRequestWithContext cannot fail here: the URL
\* ends in eight digits.)
A_Receive ==
    /\ a_pc = "idle"
    /\ b_pc = "idle"
    /\ \E body \in GatewayBodies :
         LET d == Decode(body)
             sp == SpanStart(spans, "a.WeatherHandler")
         IN  /\ a_body' = body
             /\ IF ~d.ok
                THEN /\ w_a' = HttpError(w_a, ErrorsNew("invalid request body"), StatusBadRequest)
                     /\ a_pc' = "done"
                     /\ spans' = SpanEnd(sp, "a.WeatherHandler")
                     /\ UNCHANGED <<a_req, calls>>
                ELSE IF ~isValidCEP_A(d.val.CEP)
                THEN /\ w_a' = HttpError(w_a, ErrorsNew("invalid zipcode"), StatusUnprocessableEntity)
                     /\ a_pc' = "done"
                     /\ a_req' = d.val
                     /\ spans' = SpanEnd(sp, "a.WeatherHandler")
                     /\ UNCHANGED calls
                ELSE /\ a_req' = d.val
                     /\ a_pc' = "Do"
                     /\ spans' = sp
                     /\ calls' = [calls EXCEPT !.serviceb = StartCall(@, GatewayRequest(d.val.CEP))]
                     /\ UNCHANGED w_a
    /\ UNCHANGED <<cancelled, a_resp>>
    /\ UNCHANGED b_vars

\* client.Do returns an error: service B cannot be reached, the connection
\* breaks, or the request's context is done.
A_DoError ==
    /\ a_pc = "Do"
    /\ \E cause \in DoErrors(calls.serviceb.req) :
         A_Return(HttpError(w_a, ErrorsNew("erro ao chamar o serviço B"), StatusInternalServerError))
    /\ calls' = [calls EXCEPT !.serviceb.st = "failed"]
    /\ UNCHANGED <<cancelled, a_body, a_req, a_resp>>
    /\ UNCHANGED b_vars

\* client.Do returns service B's response; its headers and status are
\* relayed, io.Copy starts.
A_DoResponse ==
    /\ a_pc = "Do"
    /\ b_pc = "done"
    /\ MayComplete(calls.serviceb.req)
    /\ LET resp == [StatusCode |-> w_b.status, Header |-> w_b.header, Body |-> w_b.body]
       IN  /\ a_resp' = resp
           /\ w_a' = RelayHead(w_a, resp)
    /\ a_pc' = "Copy"
    /\ calls' = [calls EXCEPT !.serviceb.st = "headers"]
    /\ UNCHANGED <<cancelled, spans, a_body, a_req>>
    /\ UNCHANGED b_vars

\* io.Copy ends, after the whole body or, on a failed read, after a part
\* of it; its result is not looked at.
A_Copy ==
    /\ a_pc = "Copy"
    /\ \E k \in 0..Len(a_resp.Body) :
         /\ k = Len(a_resp.Body) => MayComplete(calls.serviceb.req)
         /\ A_Return(CopyBody(w_a, a_resp.Body, k))
         /\ calls' = [calls EXCEPT !.serviceb.st =
                        IF k = Len(a_resp.Body) THEN "ok" ELSE "failed"]
    /\ UNCHANGED <<cancelled, a_body, a_req, a_resp>>
    /\ UNCHANGED b_vars

\* ------------------------------------------------------------ cancellation

\* The caller of the gateway goes away: r.Context() of service A is done.
CancelA ==
    /\ a_pc \in {"Do", "Copy"}
    /\ ~cancelled.a
    /\ cancelled' = [cancelled EXCEPT !.a = TRUE]
    /\ UNCHANGED <<calls, spans, a_pc, a_body, a_req, a_resp, w_a>>
    /\ UNCHANGED b_vars

\* The caller of service B goes away: r.Context() of service B is done.
\* For a request of the gateway that is when its call has failed.
CancelB ==
    /\ b_pc \notin {"idle", "done"}
    /\ ~cancelled.b
    /\ b_via = "gateway" => calls.serviceb.st = "failed"
    /\ cancelled' = [cancelled EXCEPT !.b = TRUE]
    /\ UNCHANGED <<env, calls, spans, trace, b_pc, b_via, b_cep, location, viacepResp,
                   weatherResp, w_b, exit>>
    /\ UNCHANGED a_vars

Next ==
    \/ A_Receive
    \/ A_DoError
    \/ A_DoResponse
    \/ A_Copy
    \/ B_ReceiveDirect
    \/ B_ReceiveFromA
    \/ B_LocationDoError
    \/ B_LocationDoResponse
    \/ B_LocationReadError
    \/ B_LocationReadAll
    \/ B_WeatherDoError
    \/ B_WeatherDoResponse
    \/ B_WeatherReadError
    \/ B_WeatherReadAll
    \/ CancelA
    \/ CancelB

Spec == Init /\ [][Next]_vars

\* ================================================================== claims

\* Exactly eight ASCII digits, said without the code's validators.
EightDigits(cep) == Len(cep) = 8 /\ \A i \in 1..8 : cep[i] \in Digits

\* The body of a response that is one line of text.
TextBody(msg) == <<TextChunk(ErrorsNew(msg))>>

LocationFailures == {"location.transport", "location.read", "location.decode"}

WeatherFailures ==
    {"weather.credential", "weather.transport", "weather.read", "weather.decode"}

\* C1: for a request with a valid postal code, the orchestrator answers 404
\* with body "can not find zipcode" exactly when fetchLocation returned by
\* the provider's not-found signal; a transport, read or decode failure of
\* fetchLocation is answered 500, never 404, whatever its text.
C1_NotFoundOnlyOnSignal ==
    (b_pc = "done" /\ EightDigits(b_cep)) =>
        /\ (w_b.status = StatusNotFound /\ w_b.body = TextBody(NotFoundText))
               <=> exit = "location.notfound"
        /\ exit \in LocationFailures =>
               /\ w_b.status = StatusInternalServerError
               /\ w_b.body # TextBody(NotFoundText)

\* C1 witness: the round trip failed with a cause whose text is the very
\* text of the not-found error, and the answer is 500.
C1_Witness ==
    /\ b_pc = "done"
    /\ exit = "location.transport"
    /\ w_b.body[1].text.msg = NotFoundText
    /\ w_b.status = StatusInternalServerError

\* C2: a gateway request whose body parses but whose postal code is not
\* eight digits is answered 422 "invalid zipcode" with no request to the
\* orchestrator; a request to the orchestrator is sent only after the body
\* parsed and the postal code was accepted.
C2_InvalidNeverForwarded ==
    /\ (a_pc # "idle" /\ Decode(a_body).ok /\ ~EightDigits(Decode(a_body).val.CEP)) =>
          /\ a_pc = "done"
          /\ w_a.status = StatusUnprocessableEntity
          /\ w_a.body = TextBody("invalid zipcode")
          /\ calls.serviceb.n = 0
          /\ b_pc = "idle"
    /\ calls.serviceb.n > 0 =>
          /\ Decode(a_body).ok
          /\ EightDigits(Decode(a_body).val.CEP)

\* C2 witness: the README's {"cep":"12345"} was rejected by the gateway.
C2_Witness ==
    /\ a_pc = "done"
    /\ a_body = [json |-> TRUE, cep |-> CepString(<<"1", "2", "3", "4", "5">>)]
    /\ w_a.status = StatusUnprocessableEntity
    /\ calls.serviceb.n = 0

\* C3: the orchestrator's steps run in the order validate, fetchLocation,
\* fetchWeather, respond; each adapter is called at most once; the first
\* failing step ends the request; an invalid postal code is answered 422
\* without any adapter call; fetchWeather is called only after fetchLocation
\* returned a locality, so the two calls are never in flight together.
C3_Sequential ==
    /\ trace \in { << >>,
                   <<"validate", "respond">>,
                   <<"validate", "fetchLocation">>,
                   <<"validate", "fetchLocation", "respond">>,
                   <<"validate", "fetchLocation", "fetchWeather">>,
                   <<"validate", "fetchLocation", "fetchWeather", "respond">> }
    /\ calls.viacep.n <= 1
    /\ calls.weatherapi.n <= 1
    /\ (b_pc # "idle" /\ ~EightDigits(b_cep)) =>
          /\ b_pc = "done"
          /\ w_b.status = StatusUnprocessableEntity
          /\ calls.viacep.n = 0
          /\ calls.weatherapi.n = 0
    /\ calls.weatherapi.n > 0 => calls.viacep.st = "ok"
    /\ ~(/\ calls.viacep.st \in {"inflight", "headers"}
         /\ calls.weatherapi.st \in {"inflight", "headers"})
    /\ exit \in LocationFailures \cup {"location.notfound", "invalid"} =>
          /\ calls.weatherapi.n = 0
          /\ trace[Len(trace) - 1] # "fetchWeather"
    /\ b_pc = "done" <=> (trace # << >> /\ trace[Len(trace)] = "respond")

\* C3 witness: a request went through all four steps.
C3_Witness ==
    /\ b_pc = "done"
    /\ exit = "success"
    /\ trace = <<"validate", "fetchLocation", "fetchWeather", "respond">>
    /\ calls.viacep.n = 1
    /\ calls.weatherapi.n = 1

\* C4: every span opened for a request (the handler span, the spans of
\* fetchLocation and of fetchWeather) is ended exactly once before the
\* request completes, on every path; none stays open, none is ended twice.
C4_SpansClosedOnce ==
    /\ \A n \in SpanNames :
          /\ spans[n].started <= 1
          /\ spans[n].ended <= spans[n].started
    /\ b_pc = "done" =>
          /\ spans["b.WeatherHandler"].started = 1
          /\ \A n \in SpanNames \ {"a.WeatherHandler"} : spans[n].ended = spans[n].started
          /\ (trace[Len(trace) - 1] # "validate") => spans["fetchLocation-viacep"].started = 1
          /\ (trace[Len(trace) - 1] = "fetchWeather") =>
                 spans["fetchWeather-weatherapi"].started = 1
    /\ a_pc = "done" =>
          /\ spans["a.WeatherHandler"].started = 1
          /\ spans["a.WeatherHandler"].ended = 1

\* C4 witness: the request ended on the missing credential, with all three
\* spans of the orchestrator opened and ended.
C4_Witness ==
    /\ b_pc = "done"
    /\ exit = "weather.credential"
    /\ \A n \in SpanNames \ {"a.WeatherHandler"} :
          spans[n].started = 1 /\ spans[n].ended = 1

\* C5: once client.Do has returned the orchestrator's response, the
\* gateway's response has the same status code, the same headers and the
\* same body, for every outcome of the orchestrator.
C5_RelayVerbatim ==
    (a_pc = "done" /\ a_resp # NoResp) =>
        /\ w_a.status = a_resp.StatusCode
        /\ w_a.header = a_resp.Header
        /\ w_a.body = a_resp.Body

\* C6: past the address step, every failure of fetchWeather is answered 500
\* with the error's text, and the answer is 200 only when the weather
\* provider supplied a current temperature.
C6_WeatherFailureIs500 ==
    (b_pc = "done" /\ Len(trace) = 4) =>
        /\ exit \in WeatherFailures =>
              /\ w_b.status = StatusInternalServerError
              /\ Len(w_b.body) = 1
              /\ w_b.body[1].kind = "text"
        /\ w_b.status = StatusOK =>
              /\ weatherResp.Body.json
              /\ weatherResp.Body.temp_c.t = "number"

ViaCEPDecoded == calls.viacep.st = "ok" /\ Unmarshal_ViaCEP(viacepResp.Body).ok

DecodedErro == Unmarshal_ViaCEP(viacepResp.Body).val.Erro

\* fetchLocation returned a locality: the handler went on to fetchWeather.
LocalityFound == Len(trace) >= 3 /\ trace[3] = "fetchWeather"

\* C8 as claimed: whenever the decoded response carries a non-empty error
\* flag, fetchLocation returns not-found and the answer is 404; a locality
\* is returned only when the flag is empty or absent.
C8_NonEmptyFlagIsNotFound ==
    ViaCEPDecoded =>
        /\ DecodedErro # "" => (~LocalityFound /\ w_b.status = StatusNotFound)
        /\ LocalityFound => DecodedErro = ""

\* C8 as amended: whenever the decoded error flag is the text "true",
\* fetchLocation returns not-found and the answer is 404; with any other
\* flag (empty, absent, or another text) it returns the locality.
C8_TrueFlagIsNotFound ==
    ViaCEPDecoded =>
        /\ DecodedErro = "true" =>
              /\ ~LocalityFound
              /\ exit = "location.notfound"
              /\ w_b.status = StatusNotFound
        /\ DecodedErro # "true" => LocalityFound

\* C8 witness: a decoded flag "true" was answered 404.
C8_Witness ==
    /\ ViaCEPDecoded
    /\ DecodedErro = "true"
    /\ b_pc = "done"
    /\ w_b.status = StatusNotFound

\* The request whose context a downstream call is to be bound to.
Owner(c) == IF c = "serviceb" THEN "a" ELSE "b"

CallNames == {"serviceb", "viacep", "weatherapi"}

\* C9: every downstream call is bound to its request's inbound context:
\* once that context is done, a call in flight can only fail, and no call
\* of the request gets a response or reads a body to its end.
C9_CancelAborts ==
    [][\A c \in CallNames :
          (cancelled[Owner(c)] /\ calls'[c].st # calls[c].st) =>
              calls'[c].st \in {"inflight", "failed"}]_vars

\* C9 witness: the caller of the gateway went away while the orchestrator
\* waited for the weather provider; both calls aborted, and neither service
\* answered from a response.
C9_Witness ==
    /\ cancelled.a
    /\ cancelled.b
    /\ calls.serviceb.st = "failed"
    /\ calls.viacep.st = "ok"
    /\ calls.weatherapi.st = "failed"
    /\ exit = "weather.transport"
    /\ w_b.body[1].text.msg = ContextCanceled

\* C10: every request gets exactly one response, one status code followed
\* by a body that belongs wholly to that outcome; no failure leaves a
\* success status with an error text or a truncated body.  Stated for the
\* orchestrator's response (the gateway's relayed body is C5's subject).
C10_OneWholeResponse ==
    b_pc = "done" =>
        /\ w_b.wroteHeader
        /\ w_b.superfluous = 0
        /\ Len(w_b.body) = 1
        /\ w_b.status = StatusOK <=> w_b.body[1].kind = "json"


\* What fetchWeather returned: the Celsius temperature of its result.
ReturnedTempC == Unmarshal_WeatherAPI(weatherResp.Body).val.Current.TempC

\* C*1.8 + 32 and C + 273 in hundredths, computed without the handler's
\* operators (C a whole number of tenths of a degree, as the provider
\* reports it).
ExpectedTempF(c) == Fin((c.v \div 10) * 18 + 3200)

ExpectedTempK(c) == Fin(c.v + 27300)

\* C11: on every successful request (no step failed, the response was
\* encoded) the 200 response is the JSON line whose city is the locality
\* fetchLocation returned, whose temp_C is the temperature C fetchWeather
\* returned, whose temp_F is C*1.8 + 32 and whose temp_K is C + 273; C = 20
\* gives temp_F = 68 and temp_K = 293.  The response is a function of the
\* two adapter results alone.
C11_SuccessResponse ==
    (b_pc = "done" /\ exit = "success") =>
        /\ w_b.status = StatusOK
        /\ w_b.body = <<JsonChunk(FinalResponse(location.Localidade, ReturnedTempC,
                                                 ExpectedTempF(ReturnedTempC),
                                                 ExpectedTempK(ReturnedTempC)))>>
        /\ ReturnedTempC = Fin(2000) =>
              /\ w_b.body[1].json.TempF = Fin(6800)
              /\ w_b.body[1].json.TempK = Fin(29300)

\* C11 witness: the README's success scenario, São Paulo at 20 degrees.
C11_Witness ==
    /\ b_pc = "done"
    /\ exit = "success"
    /\ w_b.body[1].json = FinalResponse("São Paulo", Fin(2000), Fin(6800), Fin(29300))

====
